---- MODULE Spec2Model ----
(***************************************************************************)
(* Model of the dynamic category engine of model_service:                  *)
(*   DynamicCategoryManager  (dynamic_classifier.py, the category registry)*)
(*   DynamicEmailClassifier  (dynamic_classifier.py, scorer + strategies)  *)
(*   the /predict and /categories endpoints of enhanced_app.py             *)
(*                                                                         *)
(* Conventions.  A Python dict is a sequence of entries in insertion       *)
(* order.  Probabilities and confidences are exact rationals: scorer       *)
(* outputs are permille (0..1000), rule scores are hundredths, and a       *)
(* confidence is a pair <<num, den>>; binary floating point rounding and   *)
(* round(x, 4) are not modelled.  Substring tests on the e-mail text are   *)
(* membership of a token in the set of tokens of the text.                 *)
(***************************************************************************)
EXTENDS Integers, Sequences, FiniteSets, TLC

VARIABLES
    categories,                  \* DynamicCategoryManager.categories
    categories_file,             \* the document _save_categories wrote
    prediction_cache,            \* DynamicEmailClassifier.prediction_cache
    num_labels,                  \* width of the scorer's output (classifier head)
    model_label_to_category_id,  \* the attribute load_model_from_path builds
    ret,                         \* what the last call returned
    last_issued,                 \* history: id given by the latest successful add
    increasing,                  \* history: no add gave an id <= the add before it
    orphaned,                    \* history: id released by the latest successful remove
    id2label,                    \* DynamicEmailClassifier.id2label (<<>>: none)
    calls,                       \* the predict_single calls in flight, per thread
    loading,                     \* the load_model_from_path call in flight
    snapshot,                    \* the dict get_categories returned last
    file_writable                \* can open(self.categories_file, 'w') succeed?

vars == <<categories, categories_file, prediction_cache, num_labels,
          model_label_to_category_id, ret, last_issued, increasing, orphaned,
          id2label, calls, loading, snapshot, file_writable>>

(***************************************************************************)
(* Bounds of the model.                                                    *)
(***************************************************************************)
MaxIdArg == 1       \* largest id an update call supplies
MaxMult == 10       \* largest multiplicity of one keyword in a rule list

NameSet == {"Other", "Academic", "Invoices"}
Tokens == {"invoice", "urgent"}
DescSet == {"d0", "d1"}
None == "None"      \* Python None where a name is expected
NoId == -1          \* Python None where an id is expected
Void == -2          \* last_issued once a category has been removed

(***************************************************************************)
(* Generic helpers.                                                        *)
(***************************************************************************)
Range(s) == {s[i] : i \in DOMAIN s}

Max2(a, b) == IF a >= b THEN a ELSE b

Min2(a, b) == IF a <= b THEN a ELSE b

RECURSIVE SetMax(_)
SetMax(S) == IF S = {} THEN -1
             ELSE LET x == CHOOSE y \in S : TRUE
                  IN Max2(x, SetMax(S \ {x}))

\* mutant: the entry and everything after it is dropped
RemoveAt_Truncate(s, i) == SubSeq(s, 1, i - 1)

RemoveAt(s, i) == [j \in 1..(Len(s) - 1) |-> IF j < i THEN s[j] ELSE s[j + 1]]

\* A rule list (list of keyword strings) as the multiplicity of each token.
EmptyBag == [t \in Tokens |-> 0]

BagOf(t, n) == [u \in Tokens |-> IF u = t THEN n ELSE 0]

RECURSIVE BagSum(_, _)
BagSum(bag, S) == IF S = {} THEN 0
                  ELSE LET t == CHOOSE u \in S : TRUE
                       IN bag[t] + BagSum(bag, S \ {t})

BagLen(bag) == BagSum(bag, Tokens)

RECURSIVE BagSumSeq(_, _)
BagSumSeq(v, n) == IF n = 0 THEN 0 ELSE v[n] + BagSumSeq(v, n - 1)

\* number of entries of the list that occur in a text holding the tokens `text`
BagHits(bag, text) == BagSum(bag, text \cap Tokens)

(***************************************************************************)
(* Classification strategies (the dict stored under                        *)
(* "classification_strategy").  A group is `present` when its dict is      *)
(* non-empty.  Rule lists that no modelled input fills (senderDomains,     *)
(* senderPatterns, phrases, tfidfScores, tagsAnalysis) are empty, but for   *)
(* `bad_pattern`: senderPatterns holds a string that re.search cannot      *)
(* compile.                                                                *)
(***************************************************************************)
Inf == 1000000      \* float('inf') as a length bound

EmptyStrategy ==
    [headerAnalysis |-> [present |-> FALSE, subjectPatterns |-> EmptyBag,
                         bad_pattern |-> FALSE],
     bodyAnalysis |-> [present |-> FALSE, keywords |-> EmptyBag],
     metadataAnalysis |-> [present |-> FALSE, lengthPatterns |-> FALSE,
                           minLength |-> 0, maxLength |-> Inf,
                           timeKeywords |-> EmptyBag],
     confidenceThreshold |-> 700]

\* add_category's generated strategy (dynamic_classifier.py:95-112)
DefaultStrategy(keywords) ==
    [headerAnalysis |-> [present |-> TRUE, subjectPatterns |-> keywords,
                         bad_pattern |-> FALSE],
     bodyAnalysis |-> [present |-> TRUE, keywords |-> keywords],
     metadataAnalysis |-> [present |-> TRUE, lengthPatterns |-> TRUE,
                           minLength |-> 0, maxLength |-> Inf,
                           timeKeywords |-> EmptyBag],
     confidenceThreshold |-> 700]

\* A custom strategy with body keywords only (the "Invoices" scenario).
BodyStrategy(keywords) ==
    [EmptyStrategy EXCEPT !.bodyAnalysis = [present |-> TRUE, keywords |-> keywords]]

\* A custom strategy with a metadata group only.
MetaStrategy(timeKeywords) ==
    [EmptyStrategy EXCEPT !.metadataAnalysis =
        [present |-> TRUE, lengthPatterns |-> TRUE, minLength |-> 0,
         maxLength |-> Inf, timeKeywords |-> timeKeywords]]

\* A custom strategy with body keywords and a header group whose
\* senderPatterns cannot be compiled.
BadHeaderStrategy(keywords) ==
    [BodyStrategy(keywords) EXCEPT !.headerAnalysis =
        [present |-> TRUE, subjectPatterns |-> EmptyBag, bad_pattern |-> TRUE]]

IsEmptyStrategy(st) ==
    /\ ~st.headerAnalysis.present
    /\ ~st.bodyAnalysis.present
    /\ ~st.metadataAnalysis.present

(***************************************************************************)
(* DynamicCategoryManager.                                                 *)
(***************************************************************************)
\* One entry of self.categories: the key `name` and the fields of its dict.
\* has_strategy / updated_at = 0 say that the key is absent from the dict.
Category(name, id, description, keywords, has_strategy, strategy) ==
    [name |-> name, id |-> id, description |-> description,
     keywords |-> keywords, has_strategy |-> has_strategy,
     classification_strategy |-> strategy, updated_at |-> 0]

default_categories ==
    << Category("Other", 0, "d0", EmptyBag, FALSE, EmptyStrategy) >>

\* the names remove_category refuses (dynamic_classifier.py:129)
remove_default_categories == {"Academic", "Promotions", "Placement", "Spam", "Other"}

get_category_names(cats) == [i \in DOMAIN cats |-> cats[i].name]

NamesOf(cats) == {cats[i].name : i \in DOMAIN cats}

IdsOf(cats) == {cats[i].id : i \in DOMAIN cats}

IndexOf(cats, name) == CHOOSE i \in DOMAIN cats : cats[i].name = name

\* first entry in dict order whose id matches, else None
get_category_by_id(cats, category_id) ==
    IF \E i \in DOMAIN cats : cats[i].id = category_id
    THEN LET i == CHOOSE k \in DOMAIN cats :
                    /\ cats[k].id = category_id
                    /\ \A j \in 1..(k - 1) : cats[j].id # category_id
         IN cats[i].name
    ELSE None

get_category_id_by_name(cats, category_name) ==
    IF category_name \in NamesOf(cats)
    THEN cats[IndexOf(cats, category_name)].id
    ELSE NoId

\* mutant: ids are never given twice (one is skipped after the maximum)
next_id_Skip(cats) == IF cats = <<>> THEN 0 ELSE SetMax(IdsOf(cats)) + 2

next_id(cats) == IF cats = <<>> THEN 0 ELSE SetMax(IdsOf(cats)) + 1

\* mutant: a duplicate name overwrites the entry instead of failing
add_category_Overwrite(cats, name, description, keywords, strategy) ==
    IF name \in NamesOf(cats)
    THEN [ok |-> TRUE,
          cats |-> [cats EXCEPT ![IndexOf(cats, name)] =
                      Category(name, next_id(cats), description, keywords, TRUE,
                               DefaultStrategy(keywords))]]
    ELSE [ok |-> TRUE,
          cats |-> Append(cats,
                     Category(name, next_id(cats), description, keywords, TRUE,
                              DefaultStrategy(keywords)))]

\* add_category: [ok, cats]; strategy = EmptyStrategy stands for None / {}
add_category(cats, name, description, keywords, strategy) ==
    IF name \in NamesOf(cats)
    THEN [ok |-> FALSE, cats |-> cats]
    ELSE [ok |-> TRUE,
          cats |-> Append(cats,
                     Category(name, next_id(cats), description, keywords, TRUE,
                              IF IsEmptyStrategy(strategy)
                              THEN DefaultStrategy(keywords)
                              ELSE strategy))]

\* mutant: the default-category guard is missing
remove_category_NoDefaultGuard(cats, name) ==
    IF name \notin NamesOf(cats)
    THEN [ok |-> FALSE, cats |-> cats]
    ELSE [ok |-> TRUE, cats |-> RemoveAt(cats, IndexOf(cats, name))]

remove_category(cats, name) ==
    IF name \notin NamesOf(cats)
    THEN [ok |-> FALSE, cats |-> cats]
    ELSE IF name \in remove_default_categories
    THEN [ok |-> FALSE, cats |-> cats]
    ELSE [ok |-> TRUE, cats |-> RemoveAt(cats, IndexOf(cats, name))]

\* the keys of one category's dict
KeysOf(cat) ==
    {"id", "description", "keywords", "color", "created_at"}
        \cup (IF cat.has_strategy THEN {"classification_strategy"} ELSE {})
        \cup (IF cat.updated_at # 0 THEN {"updated_at"} ELSE {})

\* self.categories[name][key] = value, for the keys the model carries
SetKey(cat, key, value) ==
    CASE key = "id" -> [cat EXCEPT !.id = value]
      [] key = "description" -> [cat EXCEPT !.description = value]
      [] key = "keywords" -> [cat EXCEPT !.keywords = value]
      [] key = "classification_strategy" ->
            [cat EXCEPT !.classification_strategy = value]
      [] OTHER -> cat

\* update_category(name, **{key: value})
update_category(cats, name, key, value) ==
    IF name \notin NamesOf(cats)
    THEN [ok |-> FALSE, cats |-> cats]
    ELSE LET i == IndexOf(cats, name)
             c1 == IF key \in KeysOf(cats[i])
                   THEN SetKey(cats[i], key, value)
                   ELSE cats[i]
         IN [ok |-> TRUE,
             cats |-> [cats EXCEPT ![i] = [c1 EXCEPT !.updated_at = 1]]]

(***************************************************************************)
(* Exact rationals <<num, den>> (den > 0) for confidences.                 *)
(***************************************************************************)
RECURSIVE Gcd(_, _)
Gcd(a, b) == IF b = 0 THEN a ELSE Gcd(b, a % b)

Rat(n, d) == LET g == Gcd(n, d) IN IF g = 0 THEN <<0, 1>> ELSE <<n \div g, d \div g>>

RatGt(a, b) == a[1] * b[2] > b[1] * a[2]

RatGe(a, b) == a[1] * b[2] >= b[1] * a[2]

Permille(p) == Rat(p, 1000)

\* the cap of a strategy override (dynamic_classifier.py:471)
CapNum == 95

CAP == Rat(CapNum, 100)

(***************************************************************************)
(* StrategyScorer: each _analyze_* returns <<score, max_score>> in         *)
(* hundredths.  An e-mail is [subject, body]: the tokens each part holds.  *)
(***************************************************************************)
FullText(email) == email.subject \cup email.body

\* len(f"{subject} {body}"): one character per token and the separator
TextLength(email) == Cardinality(email.subject) + 1 + Cardinality(email.body)

\* re.search raising on a pattern leaves through the except branch, which
\* returns 0.0, 1.0 (lines 519-521)
_analyze_header(email, header_analysis) ==
    LET subject_patterns == header_analysis.subjectPatterns
    IN IF header_analysis.bad_pattern
       THEN << 0, 100 >>
       ELSE IF BagLen(subject_patterns) > 0
       THEN << 20 * BagHits(subject_patterns, email.subject),
               20 * BagLen(subject_patterns) >>
       ELSE << 0, 0 >>

_analyze_body(email, body_analysis) ==
    LET keywords == body_analysis.keywords
    IN IF BagLen(keywords) > 0
       THEN << 10 * BagHits(keywords, FullText(email)), 10 * BagLen(keywords) >>
       ELSE << 0, 0 >>

_analyze_metadata(email, metadata_analysis) ==
    LET length_score ==
            IF /\ metadata_analysis.lengthPatterns
               /\ metadata_analysis.minLength <= TextLength(email)
               /\ TextLength(email) <= metadata_analysis.maxLength
            THEN 30 ELSE 0
        time_score == 10 * BagHits(metadata_analysis.timeKeywords, FullText(email))
    IN << length_score + time_score, 100 >>

\* analysis_score and max_possible_score of one category (lines 425-454)
StrategyTotals(email, st) ==
    LET h == IF st.headerAnalysis.present
             THEN _analyze_header(email, st.headerAnalysis) ELSE << 0, 0 >>
        b == IF st.bodyAnalysis.present
             THEN _analyze_body(email, st.bodyAnalysis) ELSE << 0, 0 >>
        m == IF st.metadataAnalysis.present
             THEN _analyze_metadata(email, st.metadataAnalysis) ELSE << 0, 0 >>
    IN << h[1] + b[1] + m[1], h[2] + b[2] + m[2] >>

\* scores.get(name, 0.0)
ScoreGet(scores, name) == IF name \in DOMAIN scores THEN scores[name] ELSE 0

\* Is the category at cats[i] scored at all (lines 418-423, 457)?
Scored(email, cat) ==
    /\ cat.name # "Other"
    /\ cat.has_strategy
    /\ ~IsEmptyStrategy(cat.classification_strategy)
    /\ StrategyTotals(email, cat.classification_strategy)[2] > 0

\* strategy_confidence >= threshold * 0.8 (line 464)
StrongEnough(email, cat) ==
    LET t == StrategyTotals(email, cat.classification_strategy)
    IN t[1] * 10000 >= 8 * cat.classification_strategy.confidenceThreshold * t[2]

\* combined_confidence = ml_base_score * 0.3 + strategy_confidence * 0.7
Combined(email, cat, scores) ==
    LET t == StrategyTotals(email, cat.classification_strategy)
    IN Rat(3 * ScoreGet(scores, cat.name) * t[2] + 7000 * t[1], 10000 * t[2])

\* mutant: the override keeps the combined value, uncapped
AnalysisStep_NoCap(email, cat, scores, best) ==
    IF /\ Scored(email, cat)
       /\ StrongEnough(email, cat)
       /\ RatGt(Combined(email, cat, scores), best.confidence)
    THEN [label |-> cat.name,
          confidence |-> Combined(email, cat, scores),
          category_id |-> cat.id]
    ELSE best

\* one iteration of the loop of _apply_comprehensive_analysis on cats[i]
AnalysisStep(email, cat, scores, best) ==
    IF /\ Scored(email, cat)
       /\ StrongEnough(email, cat)
       /\ RatGt(Combined(email, cat, scores), best.confidence)
    THEN [label |-> cat.name,
          confidence |-> IF RatGt(Combined(email, cat, scores), CAP)
                         THEN CAP ELSE Combined(email, cat, scores),
          category_id |-> cat.id]
    ELSE best

RECURSIVE AnalysisLoop(_, _, _, _, _)
AnalysisLoop(email, cats, scores, best, i) ==
    IF i > Len(cats) THEN best
    ELSE AnalysisLoop(email, cats, scores,
                      AnalysisStep(email, cats[i], scores, best), i + 1)

_apply_comprehensive_analysis(email, cats, scores, ml_category, ml_confidence, ml_category_id) ==
    AnalysisLoop(email, cats, scores,
                 [label |-> ml_category, confidence |-> ml_confidence,
                  category_id |-> ml_category_id], 1)

(***************************************************************************)
(* DynamicEmailClassifier: label map and predictions.                      *)
(***************************************************************************)
\* Python's `a or b` on an Optional[int]: None and 0 are both falsy
PyOr(a, b) == IF a = NoId \/ a = 0 THEN b ELSE a

\* the cat_id of one id2label entry (dynamic_classifier.py:313)
LabelCatId(cats, label_name) ==
    PyOr(PyOr(get_category_id_by_name(cats, label_name),
              get_category_id_by_name(cats, "Other")), 0)

\* the map load_model_from_path builds (lines 302-318); id2label = <<>> is
\* a config without id2label.  Entry i + 1 of the sequence is model index i.
BuildLabelMap(cats, labels) ==
    IF labels # <<>>
    THEN [i \in DOMAIN labels |-> LabelCatId(cats, labels[i])]
    ELSE [i \in 1..Len(cats) |-> i - 1]

NoLabelMap == [set |-> FALSE, map |-> <<>>]

\* id_map.get(i, i) if id_map else i   (model index i, 0-based)
MappedCatId(id_map, i) ==
    IF id_map.set /\ id_map.map # <<>> /\ (i + 1) \in DOMAIN id_map.map
    THEN id_map.map[i + 1]
    ELSE i

\* get_category_by_id(...) or 'Other'
NameOrOther(cats, category_id) ==
    IF get_category_by_id(cats, category_id) = None
    THEN "Other"
    ELSE get_category_by_id(cats, category_id)

\* A dict with float values: its keys in insertion order and its values.
DictPut(d, key, value) ==
    IF key \in DOMAIN d.val
    THEN [d EXCEPT !.val[key] = value]
    ELSE [keys |-> Append(d.keys, key), val |-> d.val @@ (key :> value)]

ZeroScores(names) ==
    [keys |-> names, val |-> [n \in Range(names) |-> 0]]

\* the loop of lines 691-696 from model index i on
RECURSIVE MapScores(_, _, _, _, _)
MapScores(cats, id_map, probabilities, d, i) ==
    IF i >= Len(probabilities) THEN d
    ELSE LET mapped_name == NameOrOther(cats, MappedCatId(id_map, i))
             old == IF mapped_name \in DOMAIN d.val THEN d.val[mapped_name] ELSE 0
         IN MapScores(cats, id_map, probabilities,
                      DictPut(d, mapped_name, Max2(old, probabilities[i + 1])),
                      i + 1)

\* max(d.items(), key=value): the first key in dict order with the largest value
ArgMaxFirst(d) ==
    LET k == CHOOSE i \in DOMAIN d.keys :
                /\ \A j \in DOMAIN d.keys : d.val[d.keys[j]] <= d.val[d.keys[i]]
                /\ \A j \in 1..(i - 1) : d.val[d.keys[j]] < d.val[d.keys[i]]
    IN d.keys[k]

\* the result of the except branch of predict_single / predict_batch
FailureResult ==
    [label |-> "Other", confidence |-> <<0, 1>>, scores |-> <<>>,
     category_id |-> NoId, error |-> TRUE]

\* predict_single after a cache miss and a successful scorer call (687-721)
ComputeSingle(cats, id_map, email, probabilities) ==
    LET mapped_scores == MapScores(cats, id_map, probabilities,
                                   ZeroScores(get_category_names(cats)), 0)
    IN IF mapped_scores.keys = <<>>
       THEN FailureResult
       ELSE LET category_name == ArgMaxFirst(mapped_scores)
                confidence == Permille(mapped_scores.val[category_name])
                predicted_id ==
                    PyOr(get_category_id_by_name(cats, category_name), 0)
                final == _apply_comprehensive_analysis(
                             email, cats, mapped_scores.val, category_name,
                             confidence, predicted_id)
            IN [label |-> final.label, confidence |-> final.confidence,
                scores |-> mapped_scores.val,
                category_id |-> final.category_id, error |-> FALSE]

\* torch.argmax: the first model index (0-based) with the largest value
TorchArgMax(probabilities) ==
    (CHOOSE i \in DOMAIN probabilities :
        /\ \A j \in DOMAIN probabilities : probabilities[j] <= probabilities[i]
        /\ \A j \in 1..(i - 1) : probabilities[j] < probabilities[i]) - 1

\* one item of predict_batch (lines 768-791)
ComputeBatchItem(cats, probabilities) ==
    LET predicted_id == TorchArgMax(probabilities)
        category_names == get_category_names(cats)
        shown == {k \in DOMAIN category_names : k - 1 < Len(probabilities)}
    IN [label |-> NameOrOther(cats, predicted_id),
        confidence |-> Permille(probabilities[predicted_id + 1]),
        scores |-> [n \in {category_names[k] : k \in shown} |->
                       probabilities[IndexOf(cats, n)]],
        category_id |-> predicted_id, error |-> FALSE]

\* predict_batch: `probs` is the scorer's output per item; scorer_ok is FALSE
\* when the tokenizer or the model raises on some chunk
predict_batch_result(cats, emails, probs, scorer_ok) ==
    IF emails = <<>> THEN <<>>
    ELSE IF ~scorer_ok THEN [i \in DOMAIN emails |-> FailureResult]
    ELSE [i \in DOMAIN emails |-> ComputeBatchItem(cats, probs[i])]

\* PredictionResponse(**result) (enhanced_app.py:95-100): category_id is required
ValidResponse(result) == result.category_id # NoId

(***************************************************************************)
(* ModelFusion (ensemble_classifier.py).  A feature_result is the tuple    *)
(* FeatureBasedClassifier.predict returns: [label, confidence, scores],    *)
(* the confidence and the scores in permille.                              *)
(***************************************************************************)
RatAdd(a, b) == Rat(a[1] * b[2] + b[1] * a[2], a[2] * b[2])

RatMul(a, b) == Rat(a[1] * b[1], a[2] * b[2])

\* Python's min(a, b) and max(a, b): the first argument on ties
RatMin(a, b) == IF RatGt(a, b) THEN b ELSE a

RatMax_First(a, b) == a

RatMax(a, b) == IF RatGt(b, a) THEN b ELSE a

\* ModelFusion.__init__: the weights 0.6 and 0.4, in tenths, and their sum
distilbert_weight == 6
feature_weight == 4
total_weight == distilbert_weight + feature_weight

\* lines 184-192: the weighted score of every label either scorer names
combined_scores(distilbert_scores, feature_scores) ==
    [label \in DOMAIN distilbert_scores \cup DOMAIN feature_scores |->
        Rat(ScoreGet(distilbert_scores, label) * distilbert_weight
              + ScoreGet(feature_scores, label) * feature_weight,
            1000 * total_weight)]

\* lines 199-208: dynamic weighting
adjusted_confidence(distilbert_confidence, feature_confidence, best_confidence) ==
    IF /\ RatGt(distilbert_confidence, Rat(8, 10))
       /\ RatGt(Rat(6, 10), feature_confidence)
    THEN RatMin(CAP, RatAdd(RatMul(distilbert_confidence, Rat(8, 10)),
                            RatMul(best_confidence, Rat(2, 10))))
    ELSE IF /\ RatGt(feature_confidence, Rat(8, 10))
            /\ RatGt(Rat(6, 10), distilbert_confidence)
    THEN RatMin(CAP, RatAdd(RatMul(feature_confidence, Rat(8, 10)),
                            RatMul(best_confidence, Rat(2, 10))))
    ELSE best_confidence

\* lines 194-234 once max() has picked best_label_name
FuseWith(distilbert_result, feature_result, scores, best_label_name) ==
    LET distilbert_confidence == distilbert_result.confidence
        feature_confidence == Permille(feature_result.confidence)
        adjusted == adjusted_confidence(distilbert_confidence, feature_confidence,
                                        scores[best_label_name])
        fallback_confidence ==
            RatMul(RatMax(distilbert_confidence, feature_confidence), Rat(7, 10))
        low == RatGt(Rat(3, 10), adjusted)
    IN [label |-> IF ~low THEN best_label_name
                  ELSE IF RatGe(distilbert_confidence, feature_confidence)
                  THEN distilbert_result.label
                  ELSE feature_result.label,
        confidence |-> IF low THEN fallback_confidence ELSE adjusted,
        scores |-> scores,
        ensembleScores |-> [distilbert |-> distilbert_confidence,
                            featureBased |-> feature_confidence,
                            combined |-> IF low THEN fallback_confidence
                                         ELSE adjusted]]

\* fuse_predictions (165-252): the results it can return.  all_labels is a
\* Python set, so max() meets the labels in an order the build picks: on a
\* tie any label of maximal score can be the best one.  With no label at
\* all max() raises and the except branch answers.
fuse_predictions(distilbert_result, feature_result) ==
    LET scores == combined_scores(distilbert_result.scores, feature_result.scores)
        best == {l \in DOMAIN scores :
                    \A k \in DOMAIN scores : RatGe(scores[l], scores[k])}
    IN IF DOMAIN scores = {}
       THEN {[label |-> distilbert_result.label,
              confidence |-> distilbert_result.confidence,
              scores |-> distilbert_result.scores,
              ensembleScores |-> [distilbert |-> distilbert_result.confidence,
                                  featureBased |-> <<0, 1>>,
                                  combined |-> distilbert_result.confidence]]}
       ELSE {FuseWith(distilbert_result, feature_result, scores, l) : l \in best}

(***************************************************************************)
(* Inputs of the operations.                                               *)
(***************************************************************************)
cache_size == 1     \* DynamicEmailClassifier.cache_size, scaled down
MaxBatch == 2       \* longest list given to predict_batch
batch_size == 1     \* DynamicEmailClassifier.batch_size, scaled down

Emails == { [subject |-> {}, body |-> {"invoice"}],
            [subject |-> {"urgent"}, body |-> {"invoice", "urgent"}] }

KeywordPool == { EmptyBag, BagOf("invoice", 1) }

StrategyPool == { EmptyStrategy, BodyStrategy(BagOf("invoice", 1)) }

ProbLevels == {0, 500, 1000}

\* softmax outputs over n labels: non-negative, summing to one
ScorerOutputs(n) ==
    {v \in [1..n -> ProbLevels] : BagSumSeq(v, n) = 1000}

\* id2label of the models that can be loaded (<<>>: the config has none)
LoadableModels ==
    { [num_labels |-> 1, id2label |-> <<"Other">>],
      [num_labels |-> 2, id2label |-> <<"Academic", "Other">>],
      [num_labels |-> 2, id2label |-> <<"Invoices", "LABEL_1">>],
      [num_labels |-> 2, id2label |-> <<>>] }

UpdateArgs ==
    [key : {"description"}, value : {"d1"}]
        \cup [key : {"id"}, value : 0..MaxIdArg]
        \cup [key : {"classification_strategy"},
              value : {MetaStrategy(BagOf("urgent", MaxMult))}]
        \cup [key : {"priority"}, value : {0}]

(***************************************************************************)
(* State.                                                                  *)
(***************************************************************************)
NumThreads == 2     \* threads that call predict_single concurrently

Threads == 1..NumThreads

\* a thread that is not inside predict_single
IdleCall == [pc |-> "idle"]

\* no load_model_from_path is running
NotLoading == [active |-> FALSE, built |-> TRUE, k |-> 0, num_categories |-> 0]

\* get_categories has not been called
NoSnapshot == [taken |-> FALSE, cats |-> <<>>, shared |-> {}, returned |-> <<>>]

Ret(op, ok, name, results) ==
    [op |-> op, ok |-> ok, name |-> name, results |-> results]

\* the state after construction, the file system apart
InitVolatile ==
    /\ categories_file = categories
    /\ prediction_cache = <<>>
    /\ num_labels = Len(categories)
    /\ model_label_to_category_id = NoLabelMap
    /\ ret = Ret("__init__", TRUE, None, <<>>)
    /\ last_issued = NoId
    /\ increasing = TRUE
    /\ orphaned = NoId
    /\ id2label = <<>>
    /\ calls = [t \in Threads |-> IdleCall]
    /\ loading = NotLoading
    /\ snapshot = NoSnapshot

InitRest ==
    /\ file_writable = TRUE
    /\ InitVolatile

\* no categories file: _initialize_default_categories
Init ==
    /\ categories = default_categories
    /\ InitRest

\* registries a categories file can hold (load_categories, lines 42-48)
FileRegistries ==
    { << Category("Academic", 0, "d0", EmptyBag, FALSE, EmptyStrategy),
         Category("Other", 1, "d0", EmptyBag, FALSE, EmptyStrategy) >>,
      << Category("Academic", 0, "d0", EmptyBag, FALSE, EmptyStrategy),
         Category("Invoices", 1, "d0", EmptyBag, TRUE,
                  BodyStrategy(BagOf("invoice", 1))),
         Category("Other", 2, "d0", EmptyBag, FALSE, EmptyStrategy) >> }

InitLoaded ==
    /\ categories \in FileRegistries
    /\ InitRest

\* a categories file that was read, and that may be read-only
InitReadOnly ==
    /\ categories \in FileRegistries
    /\ file_writable \in BOOLEAN
    /\ InitVolatile

RegistryUnchanged == UNCHANGED <<categories, categories_file, file_writable>>

\* _save_categories (189-201): the document is rewritten from cats; an
\* exception of open or json.dump is logged and swallowed (200-201)
_save_categories(cats) == IF file_writable THEN cats ELSE categories_file

ModelUnchanged == UNCHANGED <<num_labels, model_label_to_category_id, id2label>>

ThreadsUnchanged == UNCHANGED <<calls, loading, snapshot>>

Active(t) == calls[t].pc # "idle"

\* the category dict that self.categories holds under a name
CategoryNamed(cats, name) ==
    cats[CHOOSE i \in DOMAIN cats : cats[i].name = name]

\* The dict get_categories returned is a copy of the outer dict only: under
\* each name it holds the category dict the registry held.  A registry step
\* that writes into a category dict (update_category, lines 151-155) is read
\* through the returned dict; a name the registry dropped keeps its dict in
\* the returned one, and a later add under that name makes a new dict.
SnapshotShared ==
    LET still == snapshot.shared \cap NamesOf(categories')
    IN snapshot' =
          [snapshot EXCEPT
              !.shared = still,
              !.cats = [i \in DOMAIN snapshot.cats |->
                           IF snapshot.cats[i].name \in still
                           THEN CategoryNamed(categories', snapshot.cats[i].name)
                           ELSE snapshot.cats[i]]]

\* a registry operation, seen by the predict_single calls in flight and
\* through the dict get_categories returned
RegistryObserved ==
    /\ calls' = [t \in Threads |->
                    IF Active(t)
                    THEN [calls[t] EXCEPT !.seen = @ \cup {categories'}]
                    ELSE calls[t]]
    /\ SnapshotShared
    /\ UNCHANGED <<loading, file_writable>>

HistoryUnchanged == UNCHANGED <<last_issued, increasing, orphaned>>

\* the registry step of an add: self.categories and the saved document
RegistryAdd(r) ==
    /\ categories' = r.cats
    /\ categories_file' = IF r.ok THEN _save_categories(r.cats) ELSE categories_file
    /\ last_issued' = IF r.ok /\ last_issued # Void
                      THEN r.cats[Len(r.cats)].id ELSE last_issued
    /\ increasing' = IF r.ok /\ last_issued \notin {Void, NoId}
                     THEN increasing /\ r.cats[Len(r.cats)].id > last_issued
                     ELSE increasing
    /\ UNCHANGED orphaned

RegistryRemove(r) ==
    /\ categories' = r.cats
    /\ categories_file' = IF r.ok THEN _save_categories(r.cats) ELSE categories_file
    /\ last_issued' = IF r.ok THEN Void ELSE last_issued
    /\ UNCHANGED <<increasing, orphaned>>

(***************************************************************************)
(* DynamicCategoryManager called directly.                                 *)
(***************************************************************************)
Manager_add_category(name, description, keywords, strategy) ==
    /\ RegistryAdd(add_category(categories, name, description, keywords, strategy))
    /\ ret' = Ret("add_category",
                  add_category(categories, name, description, keywords, strategy).ok,
                  name, <<>>)
    /\ ModelUnchanged
    /\ UNCHANGED prediction_cache
    /\ RegistryObserved

Manager_remove_category(name) ==
    /\ RegistryRemove(remove_category(categories, name))
    /\ ret' = Ret("remove_category", remove_category(categories, name).ok, name, <<>>)
    /\ ModelUnchanged
    /\ UNCHANGED prediction_cache
    /\ RegistryObserved

Manager_update_category(name, arg) ==
    LET r == update_category(categories, name, arg.key, arg.value)
    IN /\ categories' = r.cats
       /\ categories_file' = IF r.ok THEN _save_categories(r.cats) ELSE categories_file
       /\ ret' = Ret("update_category", r.ok, name, <<>>)
       /\ ModelUnchanged
       /\ HistoryUnchanged
       /\ UNCHANGED prediction_cache
       /\ RegistryObserved

\* get_categories / get_all_categories (160-167): self.categories.copy()
get_categories ==
    /\ snapshot' = [taken |-> TRUE, cats |-> categories,
                    shared |-> NamesOf(categories), returned |-> categories]
    /\ ret' = Ret("get_categories", TRUE, None, <<>>)
    /\ RegistryUnchanged
    /\ ModelUnchanged
    /\ HistoryUnchanged
    /\ UNCHANGED <<prediction_cache, calls, loading>>

\* remove_category with the released id recorded in `orphaned`
Tracked_remove_category(name) ==
    LET r == remove_category(categories, name)
    IN /\ categories' = r.cats
       /\ categories_file' = IF r.ok THEN _save_categories(r.cats) ELSE categories_file
       /\ last_issued' = IF r.ok THEN Void ELSE last_issued
       /\ orphaned' = IF r.ok
                      THEN get_category_id_by_name(categories, name)
                      ELSE orphaned
       /\ ret' = Ret("remove_category", r.ok, name, <<>>)
       /\ ModelUnchanged
       /\ UNCHANGED <<increasing, prediction_cache>>
       /\ RegistryObserved

(***************************************************************************)
(* DynamicEmailClassifier.                                                 *)
(***************************************************************************)
\* add_category (799-818); head_ok: _update_classification_head returns
Classifier_add_category(name, description, keywords, strategy, head_ok) ==
    LET r == add_category(categories, name, description, keywords, strategy)
    IN /\ RegistryAdd(r)
       /\ num_labels' = IF r.ok /\ head_ok THEN Len(r.cats) ELSE num_labels
       /\ prediction_cache' = IF r.ok /\ head_ok THEN <<>> ELSE prediction_cache
       /\ ret' = Ret("Classifier.add_category", r.ok /\ head_ok, name, <<>>)
       /\ UNCHANGED <<model_label_to_category_id, id2label>>
       /\ RegistryObserved

\* remove_category (820-839)
Classifier_remove_category(name, head_ok) ==
    LET r == remove_category(categories, name)
    IN /\ RegistryRemove(r)
       /\ num_labels' = IF r.ok /\ head_ok THEN Len(r.cats) ELSE num_labels
       /\ prediction_cache' = IF r.ok /\ head_ok THEN <<>> ELSE prediction_cache
       /\ ret' = Ret("Classifier.remove_category", r.ok /\ head_ok, name, <<>>)
       /\ UNCHANGED <<model_label_to_category_id, id2label>>
       /\ RegistryObserved

\* load_model_from_path (257-327); load_ok: the path exists and loads
load_model_from_path(m, load_ok) ==
    /\ num_labels' = IF load_ok THEN m.num_labels ELSE num_labels
    /\ model_label_to_category_id' =
          IF load_ok
          THEN [set |-> TRUE, map |-> BuildLabelMap(categories, m.id2label)]
          ELSE model_label_to_category_id
    /\ id2label' = IF load_ok THEN m.id2label ELSE id2label
    /\ prediction_cache' = IF load_ok THEN <<>> ELSE prediction_cache
    /\ ret' = Ret("load_model_from_path", load_ok, None, m.id2label)
    /\ RegistryUnchanged
    /\ HistoryUnchanged
    /\ ThreadsUnchanged

\* what predict_single returns (667-736); scorer_ok: tokenizer and model return
SingleResult(email, probabilities, scorer_ok) ==
    IF email \in DOMAIN prediction_cache THEN prediction_cache[email]
    ELSE IF ~scorer_ok THEN FailureResult
    ELSE ComputeSingle(categories, model_label_to_category_id, email, probabilities)

\* the cache predict_single leaves (673-676, 723-725)
SingleCache(email, probabilities, scorer_ok) ==
    IF /\ email \notin DOMAIN prediction_cache
       /\ ~SingleResult(email, probabilities, scorer_ok).error
       /\ Cardinality(DOMAIN prediction_cache) < cache_size
    THEN prediction_cache @@ (email :> SingleResult(email, probabilities, scorer_ok))
    ELSE prediction_cache

predict_single(email, probabilities, scorer_ok) ==
    /\ prediction_cache' = SingleCache(email, probabilities, scorer_ok)
    /\ ret' = Ret("predict_single", TRUE, None,
                  << SingleResult(email, probabilities, scorer_ok) >>)
    /\ RegistryUnchanged
    /\ ModelUnchanged
    /\ HistoryUnchanged
    /\ ThreadsUnchanged

predict_batch(emails, probs, scorer_ok) ==
    /\ ret' = Ret("predict_batch", TRUE, None,
                  predict_batch_result(categories, emails, probs, scorer_ok))
    /\ RegistryUnchanged
    /\ ModelUnchanged
    /\ HistoryUnchanged
    /\ UNCHANGED prediction_cache
    /\ ThreadsUnchanged

\* the chunk of item i (1-based) in range(0, len(texts), self.batch_size)
ChunkOf(i) == ((i - 1) \div batch_size) + 1

NumChunks(n) == (n + batch_size - 1) \div batch_size

\* predict_batch with the scorer's outcome given chunk by chunk: chunk_ok[c]
\* is FALSE when tokenize_batch or the model raises on chunk c.  The inputs
\* are kept in ret.name.
Chunked_predict_batch(emails, probs, chunk_ok) ==
    /\ ret' = Ret("predict_batch", TRUE, [probs |-> probs, chunk_ok |-> chunk_ok],
                  predict_batch_result(categories, emails, probs,
                                       \A c \in DOMAIN chunk_ok : chunk_ok[c]))
    /\ RegistryUnchanged
    /\ ModelUnchanged
    /\ HistoryUnchanged
    /\ UNCHANGED prediction_cache
    /\ ThreadsUnchanged

clear_cache ==
    /\ prediction_cache' = <<>>
    /\ ret' = Ret("clear_cache", TRUE, None, <<>>)
    /\ RegistryUnchanged
    /\ ModelUnchanged
    /\ HistoryUnchanged
    /\ ThreadsUnchanged

(***************************************************************************)
(* predict_single step by step, as a thread runs it next to other threads. *)
(* A call in flight is a record: its locals, and three observations about  *)
(* it: `hit` (answered from the cache), `seen` (the registries that were   *)
(* current at some instant of the call) and `torn` (it read a label map    *)
(* that a load was still filling).  `live` says that the local id_map is   *)
(* the dict object the classifier's attribute still names.                 *)
(***************************************************************************)
NewCall(email) ==
    [pc |-> "score", email |-> email, probabilities |-> <<>>,
     category_names |-> <<>>, mapped_scores |-> ZeroScores(<<>>),
     id_map |-> NoLabelMap, live |-> FALSE, i |-> 0,
     category_name |-> None, confidence |-> <<0, 1>>, predicted_id |-> NoId,
     result |-> FailureResult,
     hit |-> FALSE, seen |-> {categories}, torn |-> FALSE]

\* the label map a call reads through its local id_map
IdMapOf(c) == IF c.live THEN model_label_to_category_id ELSE c.id_map

\* is the dict the attribute names still being filled by a running load?
Filling == loading.active /\ ~loading.built

\* what a step of thread t leaves alone
CallFrame ==
    /\ RegistryUnchanged
    /\ ModelUnchanged
    /\ HistoryUnchanged
    /\ UNCHANGED <<loading, snapshot>>

\* lines 671-676: the cache lookup
Call_lookup(t, email) ==
    /\ ~Active(t)
    /\ calls' = [calls EXCEPT ![t] =
                    IF email \in DOMAIN prediction_cache
                    THEN [NewCall(email) EXCEPT !.pc = "return", !.hit = TRUE,
                                               !.result = prediction_cache[email]]
                    ELSE NewCall(email)]
    /\ CallFrame
    /\ UNCHANGED <<prediction_cache, ret>>

\* lines 678-685: tokenizer and model; the except branch when they raise
Call_score(t, probabilities, scorer_ok) ==
    /\ Active(t)
    /\ calls[t].pc = "score"
    /\ calls' = [calls EXCEPT ![t] =
                    IF scorer_ok
                    THEN [@ EXCEPT !.pc = "names", !.probabilities = probabilities]
                    ELSE [@ EXCEPT !.pc = "return", !.result = FailureResult]]
    /\ CallFrame
    /\ UNCHANGED <<prediction_cache, ret>>

\* lines 688-689: the names, and a zero score for each
Call_names(t) ==
    /\ Active(t)
    /\ calls[t].pc = "names"
    /\ calls' = [calls EXCEPT ![t] =
                    [@ EXCEPT !.pc = "id_map",
                              !.category_names = get_category_names(categories),
                              !.mapped_scores =
                                  ZeroScores(get_category_names(categories))]]
    /\ CallFrame
    /\ UNCHANGED <<prediction_cache, ret>>

\* line 690: id_map = getattr(self, 'model_label_to_category_id', None)
Call_id_map(t) ==
    /\ Active(t)
    /\ calls[t].pc = "id_map"
    /\ calls' = [calls EXCEPT ![t] = [@ EXCEPT !.pc = "map", !.live = TRUE, !.i = 0]]
    /\ CallFrame
    /\ UNCHANGED <<prediction_cache, ret>>

\* lines 691-696: one iteration of the mapping loop
Call_map_index(t) ==
    /\ Active(t)
    /\ calls[t].pc = "map"
    /\ LET c == calls[t]
           mapped_name == NameOrOther(categories, MappedCatId(IdMapOf(c), c.i))
           old == IF mapped_name \in DOMAIN c.mapped_scores.val
                  THEN c.mapped_scores.val[mapped_name] ELSE 0
       IN calls' = [calls EXCEPT ![t] =
                       [@ EXCEPT !.pc = IF c.i + 1 >= Len(c.probabilities)
                                        THEN "pick" ELSE "map",
                                 !.i = c.i + 1,
                                 !.mapped_scores =
                                     DictPut(c.mapped_scores, mapped_name,
                                             Max2(old, c.probabilities[c.i + 1])),
                                 !.torn = c.torn \/ (c.live /\ Filling)
                                                 \/ (~c.live /\ c.id_map.set
                                                       /\ c.id_map.map = <<>>)]]
    /\ CallFrame
    /\ UNCHANGED <<prediction_cache, ret>>

\* lines 699-702: the best mapped score and the id of its category
Call_pick(t) ==
    /\ Active(t)
    /\ calls[t].pc = "pick"
    /\ LET c == calls[t]
           category_name == ArgMaxFirst(c.mapped_scores)
       IN calls' = [calls EXCEPT ![t] =
                       [@ EXCEPT !.pc = "analysis",
                                 !.category_name = category_name,
                                 !.confidence =
                                     Permille(c.mapped_scores.val[category_name]),
                                 !.predicted_id =
                                     PyOr(get_category_id_by_name(categories,
                                                                  category_name), 0)]]
    /\ CallFrame
    /\ UNCHANGED <<prediction_cache, ret>>

\* lines 707-721: the strategies of the registry as it is now, and the result
Call_analysis(t) ==
    /\ Active(t)
    /\ calls[t].pc = "analysis"
    /\ LET c == calls[t]
           final == _apply_comprehensive_analysis(
                        c.email, categories, c.mapped_scores.val, c.category_name,
                        c.confidence, c.predicted_id)
       IN calls' = [calls EXCEPT ![t] =
                       [@ EXCEPT !.pc = "check",
                                 !.result =
                                     [label |-> final.label,
                                      confidence |-> final.confidence,
                                      scores |-> c.mapped_scores.val,
                                      category_id |-> final.category_id,
                                      error |-> FALSE]]]
    /\ CallFrame
    /\ UNCHANGED <<prediction_cache, ret>>

\* line 724: if len(self.prediction_cache) < self.cache_size
Call_check(t) ==
    /\ Active(t)
    /\ calls[t].pc = "check"
    /\ calls' = [calls EXCEPT ![t] =
                    [@ EXCEPT !.pc = IF Cardinality(DOMAIN prediction_cache) < cache_size
                                     THEN "store" ELSE "return"]]
    /\ CallFrame
    /\ UNCHANGED <<prediction_cache, ret>>

\* line 725: self.prediction_cache[cache_key] = result
Call_store(t) ==
    /\ Active(t)
    /\ calls[t].pc = "store"
    /\ prediction_cache' =
          [k \in DOMAIN prediction_cache \cup {calls[t].email} |->
              IF k = calls[t].email THEN calls[t].result ELSE prediction_cache[k]]
    /\ calls' = [calls EXCEPT ![t] = [@ EXCEPT !.pc = "return"]]
    /\ CallFrame
    /\ UNCHANGED ret

\* lines 676, 727, 731: the call returns
Call_return(t) ==
    /\ Active(t)
    /\ calls[t].pc = "return"
    /\ ret' = Ret("predict_single", TRUE, None, << calls[t].result >>)
    /\ calls' = [calls EXCEPT ![t] = IdleCall]
    /\ CallFrame
    /\ UNCHANGED prediction_cache

(***************************************************************************)
(* load_model_from_path step by step.  Line 303 makes the attribute name a *)
(* new, empty dict, which the loop of lines 306-314 then fills entry by    *)
(* entry; without id2label line 318 makes the attribute name another new   *)
(* dict.  A call whose id_map is the dict the attribute named before keeps *)
(* that dict.                                                              *)
(***************************************************************************)
\* the calls in flight keep the dict they hold when the attribute is re-bound
Rebound ==
    [t \in Threads |->
        IF Active(t) /\ calls[t].live
        THEN [calls[t] EXCEPT !.live = FALSE, !.id_map = model_label_to_category_id]
        ELSE calls[t]]

\* lines 265-303: the model is swapped and the attribute is an empty dict
Load_begin(m) ==
    /\ ~loading.active
    /\ num_labels' = m.num_labels
    /\ id2label' = m.id2label
    /\ model_label_to_category_id' = [set |-> TRUE, map |-> <<>>]
    /\ loading' = [active |-> TRUE, built |-> FALSE, k |-> 0,
                   num_categories |-> Len(categories)]
    /\ calls' = Rebound
    /\ RegistryUnchanged
    /\ HistoryUnchanged
    /\ UNCHANGED <<prediction_cache, ret, snapshot>>

\* lines 306-314: one id2label entry is mapped
Load_entry ==
    /\ loading.active
    /\ ~loading.built
    /\ id2label # <<>>
    /\ model_label_to_category_id' =
          [model_label_to_category_id EXCEPT
              !.map = Append(@, LabelCatId(categories, id2label[loading.k + 1]))]
    /\ loading' = [loading EXCEPT !.k = @ + 1,
                                  !.built = (loading.k + 1 = Len(id2label))]
    /\ RegistryUnchanged
    /\ HistoryUnchanged
    /\ UNCHANGED <<num_labels, id2label, prediction_cache, ret, calls, snapshot>>

\* lines 315-318: no id2label, index i is category id i
Load_fallback ==
    /\ loading.active
    /\ ~loading.built
    /\ id2label = <<>>
    /\ model_label_to_category_id' =
          [set |-> TRUE, map |-> [i \in 1..loading.num_categories |-> i - 1]]
    /\ loading' = [loading EXCEPT !.built = TRUE]
    /\ calls' = Rebound
    /\ RegistryUnchanged
    /\ HistoryUnchanged
    /\ UNCHANGED <<num_labels, id2label, prediction_cache, ret, snapshot>>

\* lines 320-324: the cache is cleared and the load returns True
Load_finish ==
    /\ loading.active
    /\ loading.built
    /\ prediction_cache' = <<>>
    /\ loading' = NotLoading
    /\ ret' = Ret("load_model_from_path", TRUE, None, id2label)
    /\ RegistryUnchanged
    /\ ModelUnchanged
    /\ HistoryUnchanged
    /\ UNCHANGED <<calls, snapshot>>

(***************************************************************************)
(* enhanced_app.py endpoints.                                              *)
(***************************************************************************)
\* POST /predict (306-336): ok is FALSE for the HTTP 500 answer
predict_email(email, probabilities, scorer_ok) ==
    /\ prediction_cache' = SingleCache(email, probabilities, scorer_ok)
    /\ ret' = Ret("POST /predict",
                  ValidResponse(SingleResult(email, probabilities, scorer_ok)),
                  None,
                  IF ValidResponse(SingleResult(email, probabilities, scorer_ok))
                  THEN << SingleResult(email, probabilities, scorer_ok) >>
                  ELSE <<>>)
    /\ RegistryUnchanged
    /\ ModelUnchanged
    /\ HistoryUnchanged
    /\ ThreadsUnchanged

\* PUT /categories/{name} (548-591) with a description, or with no field
Api_update_category(name, arg) ==
    LET r == update_category(categories, name, arg.key, arg.value)
    IN /\ categories' = r.cats
       /\ categories_file' = IF r.ok THEN _save_categories(r.cats) ELSE categories_file
       /\ ret' = Ret("PUT /categories", r.ok, name, <<>>)
       /\ ModelUnchanged
       /\ HistoryUnchanged
       /\ UNCHANGED prediction_cache
       /\ RegistryObserved

\* POST /categories/{name}/train (636-714) with a classification strategy
train_category(name, strategy) ==
    LET r == IF IsEmptyStrategy(strategy)
             THEN [ok |-> name \in NamesOf(categories), cats |-> categories]
             ELSE update_category(categories, name, "classification_strategy",
                                  strategy)
    IN /\ categories' = r.cats
       /\ categories_file' = IF r.cats # categories
                            THEN _save_categories(r.cats)
                            ELSE categories_file
       /\ prediction_cache' = IF r.ok THEN <<>> ELSE prediction_cache
       /\ ret' = Ret("POST /categories/train", r.ok, name, <<>>)
       /\ ModelUnchanged
       /\ HistoryUnchanged
       /\ RegistryObserved

(***************************************************************************)
(* EnsembleEmailClassifier (ensemble_classifier.py).                       *)
(***************************************************************************)
\* what FeatureBasedClassifier.predict can return (124-151): the first is
\* the answer of an untrained or failing model; the labels of a trained one
\* are the classes of its training data
FeatureResults ==
    { [label |-> "Other", confidence |-> 0, scores |-> <<>>],
      [label |-> "Academic", confidence |-> 220,
       scores |-> ("Academic" :> 220 @@ "Invoices" :> 200 @@ "Other" :> 200
                   @@ "Promotions" :> 190 @@ "Receipts" :> 190)],
      [label |-> "Academic", confidence |-> 250,
       scores |-> ("Academic" :> 250 @@ "Invoices" :> 250 @@ "Other" :> 250
                   @@ "Receipts" :> 250)],
      [label |-> "Invoices", confidence |-> 500,
       scores |-> ("Invoices" :> 500 @@ "Promotions" :> 500)],
      [label |-> "Promotions", confidence |-> 900,
       scores |-> ("Promotions" :> 900 @@ "Other" :> 100)],
      [label |-> "Promotions", confidence |-> 1000,
       scores |-> ("Promotions" :> 1000 @@ "Invoices" :> 0)] }

\* softmax outputs given to the ensemble's ML scorer
EnsembleOutputs(n) ==
    {v \in { <<1000>>,
             <<250, 250, 250, 250>>, <<1000, 0, 0, 0>>, <<0, 500, 500, 0>>,
             <<0, 100, 900, 0>>, <<400, 300, 300, 0>> } : Len(v) = n}

\* EnsembleEmailClassifier.predict_single (322-364); extract_ok is FALSE
\* when extract_features raises, and the except branch then answers with
\* the ML classifier's predict_single.  ret.name keeps what was fused.
Ensemble_predict_single(email, probabilities, scorer_ok, feature_result, extract_ok) ==
    LET distilbert_result == SingleResult(email, probabilities, scorer_ok)
    IN /\ prediction_cache' = SingleCache(email, probabilities, scorer_ok)
       /\ \E fused \in fuse_predictions(distilbert_result, feature_result) :
             ret' = Ret("Ensemble.predict_single", TRUE,
                        [distilbert_result |-> distilbert_result,
                         feature_result |-> feature_result,
                         fused |-> extract_ok],
                        << IF extract_ok THEN fused ELSE distilbert_result >>)
       /\ RegistryUnchanged
       /\ ModelUnchanged
       /\ HistoryUnchanged
       /\ ThreadsUnchanged

(***************************************************************************)
(* Specifications.                                                         *)
(***************************************************************************)
\* the registry alone, as the manager's tests drive it
NextRegistry ==
    \/ \E name \in NameSet :
            Manager_add_category(name, "d0", EmptyBag, EmptyStrategy)
    \/ \E name \in NameSet : Manager_remove_category(name)
    \/ \E name \in NameSet, arg \in UpdateArgs : Manager_update_category(name, arg)

SpecRegistry == Init /\ [][NextRegistry]_vars

\* the service: classifier and endpoints
ServiceNames == {"Other", "Invoices"}

ServiceUpdates == [key : {"description"}, value : {"d1"}]

Next ==
    \/ \E name \in ServiceNames, head_ok \in BOOLEAN :
            Classifier_add_category(name, "d0", EmptyBag, EmptyStrategy, head_ok)
    \/ \E name \in ServiceNames, head_ok \in BOOLEAN :
            Classifier_remove_category(name, head_ok)
    \/ \E m \in LoadableModels, load_ok \in BOOLEAN : load_model_from_path(m, load_ok)
    \/ \E email \in Emails, probabilities \in ScorerOutputs(num_labels),
          scorer_ok \in BOOLEAN :
            predict_single(email, probabilities, scorer_ok)
    \/ \E email \in Emails, probabilities \in ScorerOutputs(num_labels),
          scorer_ok \in BOOLEAN :
            predict_email(email, probabilities, scorer_ok)
    \/ \E n \in 0..MaxBatch, scorer_ok \in BOOLEAN :
       \E emails \in [1..n -> Emails], probs \in [1..n -> ScorerOutputs(num_labels)] :
            predict_batch(emails, probs, scorer_ok)
    \/ \E name \in ServiceNames, arg \in ServiceUpdates : Api_update_category(name, arg)
    \/ \E name \in ServiceNames, strategy \in StrategyPool :
            train_category(name, strategy)
    \/ clear_cache

Spec == Init /\ [][Next]_vars

\* the classifier over a registry read from a categories file
NextLoaded ==
    \/ \E name \in ServiceNames, head_ok \in BOOLEAN :
            Classifier_add_category(name, "d0", EmptyBag, EmptyStrategy, head_ok)
    \/ \E name \in ServiceNames, head_ok \in BOOLEAN :
            Classifier_remove_category(name, head_ok)
    \/ \E m \in LoadableModels, load_ok \in BOOLEAN : load_model_from_path(m, load_ok)
    \/ \E email \in Emails, probabilities \in ScorerOutputs(num_labels),
          scorer_ok \in BOOLEAN :
            predict_single(email, probabilities, scorer_ok)

SpecLoaded == InitLoaded /\ [][NextLoaded]_vars

\* The registry with the released ids recorded; updates of the id only.
ReuseUpdates == {a \in UpdateArgs : a.key = "id"}

NextReuse ==
    \/ \E name \in NameSet :
          Manager_add_category(name, "d0", EmptyBag, EmptyStrategy)
    \/ \E name \in NameSet : Tracked_remove_category(name)
    \/ \E name \in NameSet, arg \in ReuseUpdates :
          Manager_update_category(name, arg)

SpecReuse == Init /\ [][NextReuse]_vars

\* the ensemble over the default registry and over a registry read from a
\* file, one of whose categories has a metadata strategy
EnsembleRegistries ==
    { default_categories,
      << Category("Other", 0, "d0", EmptyBag, FALSE, EmptyStrategy),
         Category("Academic", 1, "d0", EmptyBag, FALSE, EmptyStrategy),
         Category("Invoices", 2, "d0", EmptyBag, TRUE,
                  MetaStrategy(BagOf("urgent", MaxMult))),
         Category("Receipts", 3, "d0", EmptyBag, FALSE, EmptyStrategy) >> }

InitEnsemble ==
    /\ categories \in EnsembleRegistries
    /\ InitRest

NextEnsemble ==
    \/ \E email \in Emails, probabilities \in EnsembleOutputs(num_labels),
          scorer_ok \in BOOLEAN, feature_result \in FeatureResults,
          extract_ok \in BOOLEAN :
            Ensemble_predict_single(email, probabilities, scorer_ok,
                                    feature_result, extract_ok)
    \/ clear_cache

SpecEnsemble == InitEnsemble /\ [][NextEnsemble]_vars

\* the steps of the predict_single call of thread t
CallSteps(t) ==
    \/ \E email \in Emails : Call_lookup(t, email)
    \/ \E probabilities \in ScorerOutputs(num_labels), scorer_ok \in BOOLEAN :
          Call_score(t, probabilities, scorer_ok)
    \/ Call_names(t)
    \/ Call_id_map(t)
    \/ Call_map_index(t)
    \/ Call_pick(t)
    \/ Call_analysis(t)
    \/ Call_check(t)
    \/ Call_store(t)
    \/ Call_return(t)

\* threads predicting concurrently on the default registry
NextCache ==
    \/ \E t \in Threads : CallSteps(t)
    \/ clear_cache

SpecCache == Init /\ [][NextCache]_vars

\* one thread predicting while another loads models, on a registry read
\* from a file
NextReload ==
    \/ CallSteps(1)
    \/ \E m \in LoadableModels : Load_begin(m)
    \/ Load_entry
    \/ Load_fallback
    \/ Load_finish

SpecReload == InitLoaded /\ [][NextReload]_vars

\* one thread predicting while the category "Invoices" is added, removed and
\* given a new strategy
RaceUpdates == {a \in UpdateArgs : a.key = "classification_strategy"}

NextRace ==
    \/ CallSteps(1)
    \/ \E strategy \in StrategyPool :
            Manager_add_category("Invoices", "d0", EmptyBag, strategy)
    \/ Manager_remove_category("Invoices")
    \/ \E arg \in RaceUpdates : Manager_update_category("Invoices", arg)

SpecRace == InitLoaded /\ [][NextRace]_vars

\* a caller that keeps the dict get_categories returned while the category
\* "Invoices" is added, removed and updated
NextSnapshot ==
    \/ get_categories
    \/ \E strategy \in StrategyPool :
            Manager_add_category("Invoices", "d0", EmptyBag, strategy)
    \/ Manager_remove_category("Invoices")
    \/ \E arg \in UpdateArgs : Manager_update_category("Invoices", arg)

SpecSnapshot == Init /\ [][NextSnapshot]_vars

\* predict_batch on a registry read from a file, chunk by chunk
NextBatch ==
    \E n \in 0..MaxBatch :
    \E emails \in [1..n -> Emails], probs \in [1..n -> ScorerOutputs(num_labels)],
       chunk_ok \in [1..NumChunks(n) -> BOOLEAN] :
          Chunked_predict_batch(emails, probs, chunk_ok)

SpecBatch == InitLoaded /\ [][NextBatch]_vars

\* the registry on a categories file that may be read-only
SpecSave == InitReadOnly /\ [][NextRegistry]_vars

\* one thread predicting while the classifier adds and removes the category
\* "Invoices", the head update succeeding
NextStale ==
    \/ CallSteps(1)
    \/ \E strategy \in StrategyPool :
            Classifier_add_category("Invoices", "d0", EmptyBag, strategy, TRUE)
    \/ Classifier_remove_category("Invoices", TRUE)

SpecStale == InitLoaded /\ [][NextStale]_vars

\* Mode A on its own: one scorer output fused with the strategies of a
\* registry whose categories carry strategies
FusionStrategies == { EmptyStrategy,
                      BodyStrategy(BagOf("invoice", 1)),
                      BadHeaderStrategy(BagOf("invoice", 1)),
                      MetaStrategy(BagOf("urgent", MaxMult)) }

FusionRegistries ==
    { << Category("Other", 0, "d0", EmptyBag, FALSE, EmptyStrategy),
         [Category("Academic", 1, "d0", EmptyBag, TRUE, EmptyStrategy)
             EXCEPT !.classification_strategy =
                 IF IsEmptyStrategy(s1) THEN DefaultStrategy(EmptyBag) ELSE s1],
         [Category("Invoices", 2, "d0", EmptyBag, TRUE, EmptyStrategy)
             EXCEPT !.classification_strategy =
                 IF IsEmptyStrategy(s2) THEN DefaultStrategy(EmptyBag) ELSE s2] >>
        : s1 \in FusionStrategies, s2 \in FusionStrategies }

InitFusion ==
    /\ categories \in FusionRegistries
    /\ InitRest

\* lines 687-721 of predict_single, applied to one scorer output
ModeA(email, probabilities) ==
    /\ ret' = Ret("ModeA", TRUE, email,
                  << ComputeSingle(categories, model_label_to_category_id, email,
                                   probabilities) >>)
    /\ RegistryUnchanged
    /\ ModelUnchanged
    /\ HistoryUnchanged
    /\ UNCHANGED prediction_cache
    /\ ThreadsUnchanged

NextFusion ==
    \E email \in Emails, probabilities \in ScorerOutputs(num_labels) :
        ModeA(email, probabilities)

SpecFusion == InitFusion /\ [][NextFusion]_vars

(***************************************************************************)
(* Properties.                                                             *)
(***************************************************************************)
RegistryOps == {"add_category", "remove_category", "update_category"}

EntryOf(cats, name) == cats[IndexOf(cats, name)]

\* C1: from default initialisation, under any sequence of add, remove and
\* update calls, the fallback category "Other" is registered (so the registry
\* is never empty) and remove("Other") never succeeds.
C1_OtherAlwaysRegistered ==
    /\ "Other" \in NamesOf(categories)
    /\ categories # <<>>
    /\ (ret.op = "remove_category" /\ ret.name = "Other") => ~ret.ok

\* C1 witness: remove("Other") has just been called on a registry that holds
\* other categories too.
C1_Witness ==
    /\ ret.op = "remove_category"
    /\ ret.name = "Other"
    /\ Len(categories) >= 2

\* C2 (as claimed): every prediction returned by predict_single or
\* predict_batch, on the success and on the failure path, has scores whose
\* key set is exactly the set of registered category names.
C2_ScoresComplete ==
    ret.op \in {"predict_single", "predict_batch"} =>
        \A i \in DOMAIN ret.results :
            DOMAIN ret.results[i].scores = NamesOf(categories)

\* C3 (as claimed): right after a successful category add, remove or update,
\* or a scorer reload, through any public entry point, the prediction cache
\* is empty.
C3_CacheEmptyAfterMutation ==
    (/\ ret.op \in {"Classifier.add_category", "Classifier.remove_category",
                    "PUT /categories", "POST /categories/train",
                    "load_model_from_path"}
     /\ ret.ok)
        => prediction_cache = <<>>

\* C4 (as claimed): when the scorer fails, predict_single returns label
\* "Other", confidence 0.0, empty or all-zero scores and an error, and the
\* /predict endpoint that wraps it answers with a result, never with an error.
C4_FailureWellFormed ==
    /\ ret.op = "predict_single" =>
          \A i \in DOMAIN ret.results :
              ret.results[i].error =>
                  /\ ret.results[i].label = "Other"
                  /\ ret.results[i].confidence = <<0, 1>>
                  /\ \A n \in DOMAIN ret.results[i].scores :
                        ret.results[i].scores[n] = 0
    /\ ret.op = "POST /predict" => ret.ok

\* The decision the claim C5 describes, for the registry order `cats`.
Eligible(email, cats, scores) ==
    {i \in DOMAIN cats : Scored(email, cats[i]) /\ StrongEnough(email, cats[i])}

BestEligible(email, cats, scores) ==
    CHOOSE i \in Eligible(email, cats, scores) :
        /\ \A j \in Eligible(email, cats, scores) :
              RatGe(Combined(email, cats[i], scores), Combined(email, cats[j], scores))
        /\ \A j \in Eligible(email, cats, scores) :
              j < i => RatGt(Combined(email, cats[i], scores),
                             Combined(email, cats[j], scores))

OrdersOf(cats) ==
    {q \in [DOMAIN cats -> Range(cats)] : Range(q) = Range(cats)}

\* C5 (as claimed): in Mode A the label is the strategy-bearing category with
\* the largest combined value, the earliest on ties, when that value exceeds
\* the ML baseline confidence, and argmax(P_ml) otherwise; an override has
\* confidence min(0.95, combined); the pick is the same for every order in
\* which the categories are evaluated.
C5_ModeADecision ==
    ret.op = "ModeA" =>
        LET r == ret.results[1]
            email == ret.name
            base == ArgMaxFirst([keys |-> get_category_names(categories),
                                 val |-> r.scores])
            baseConf == Permille(r.scores[base])
            elig == Eligible(email, categories, r.scores)
            best == BestEligible(email, categories, r.scores)
            bestC == Combined(email, categories[best], r.scores)
        IN /\ IF elig # {} /\ RatGt(bestC, baseConf)
              THEN /\ r.label = categories[best].name
                   /\ r.confidence = IF RatGt(bestC, CAP) THEN CAP ELSE bestC
              ELSE /\ r.label = base
                   /\ r.confidence = baseConf
           /\ \A q \in OrdersOf(categories) :
                 _apply_comprehensive_analysis(
                     email, q, r.scores, base, baseConf,
                     get_category_id_by_name(categories, base)).label = r.label

\* C6 (as claimed): after a scorer load that supplies id2label, every model
\* index maps to the id of the registered category named by its label, and
\* to the default category's id when no category has that name.
C6_LabelMapMatchesRegistry ==
    (/\ ret.op = "load_model_from_path"
     /\ ret.ok
     /\ ret.results # <<>>)
        => \A i \in DOMAIN ret.results :
              model_label_to_category_id.map[i] =
                  IF ret.results[i] \in NamesOf(categories)
                  THEN get_category_id_by_name(categories, ret.results[i])
                  ELSE get_category_id_by_name(categories, "Other")

\* C7: an add of a registered name, a remove of an unknown name, a remove of
\* a default category and an update of an unknown name each return failure
\* and leave the registry and its saved document unchanged.
C7_FailingNoOps ==
    [][(\/ ret'.op = "add_category" /\ ret'.name \in NamesOf(categories)
        \/ ret'.op = "remove_category" /\ ret'.name \notin NamesOf(categories)
        \/ ret'.op = "remove_category" /\ ret'.name \in remove_default_categories
        \/ ret'.op = "update_category" /\ ret'.name \notin NamesOf(categories))
          => (/\ ~ret'.ok
              /\ categories' = categories
              /\ categories_file' = categories_file)]_vars

\* C7 witness: an add of an already registered name has just failed.
C7_Witness ==
    /\ ret.op = "add_category"
    /\ ~ret.ok
    /\ ret.name \in NamesOf(categories)
    /\ Len(categories) >= 2

\* C8: a successful add makes the registry one larger and a successful remove
\* one smaller, each leaving every other category's entry as it was; a remove
\* of a default category fails and leaves the count as it was.
C8_SizeAndFrame ==
    [][/\ (ret'.op = "add_category" /\ ret'.ok) =>
              /\ Len(categories') = Len(categories) + 1
              /\ NamesOf(categories') = NamesOf(categories) \cup {ret'.name}
              /\ \A n \in NamesOf(categories) :
                    EntryOf(categories', n) = EntryOf(categories, n)
       /\ (ret'.op = "remove_category" /\ ret'.ok) =>
              /\ Len(categories') = Len(categories) - 1
              /\ NamesOf(categories') = NamesOf(categories) \ {ret'.name}
              /\ \A n \in NamesOf(categories') :
                    EntryOf(categories', n) = EntryOf(categories, n)
       /\ (ret'.op = "remove_category" /\ ret'.name \in remove_default_categories) =>
              /\ ~ret'.ok
              /\ Len(categories') = Len(categories)
      ]_vars

\* C8 witness: a category that was not the last entry has just been removed,
\* and two categories remain.
C8_Witness ==
    /\ ret.op = "remove_category"
    /\ ret.ok
    /\ Len(categories) = 2
    /\ categories[2].name = "Academic"

\* C9 (as claimed): no two registered categories share an id, so looking a
\* name's id up by id gives the name back.
C9_UniqueIds ==
    /\ \A i, j \in DOMAIN categories : i # j => categories[i].id # categories[j].id
    /\ \A n \in NamesOf(categories) :
          get_category_by_id(categories, get_category_id_by_name(categories, n)) = n

\* C10 (as claimed): as long as no category has been removed, each successful
\* add is given an id larger than the id given by the successful add before.
C10_IdsIncrease == increasing

\* C11: ID reuse is reachable.  When a successful remove released the id m,
\* larger than every id that remains, the add that follows it is given an id
\* that is at most m, and exactly m, the orphaned id, when m - 1 is still
\* in use.
C11_MaxIdReused ==
    [][(/\ ret.op = "remove_category" /\ ret.ok
        /\ \A i \in IdsOf(categories) : i < orphaned
        /\ ret'.op = "add_category" /\ ret'.ok)
          => LET new_id == get_category_id_by_name(categories', ret'.name)
             IN /\ new_id <= orphaned
                /\ (orphaned - 1) \in IdsOf(categories) => new_id = orphaned]_vars

\* C11 witness: a category has just been added with the id of the category
\* that was removed before it, which held the maximum id.
C11_Witness ==
    /\ ret.op = "add_category" /\ ret.ok
    /\ orphaned # NoId
    /\ get_category_id_by_name(categories, ret.name) = orphaned
    /\ \A i \in DOMAIN categories :
          categories[i].name # ret.name => categories[i].id < orphaned

\* a confidence within [0, 1], and within [0, 0.95]
InUnit(c) == RatGe(c, <<0, 1>>) /\ RatGe(<<1, 1>>, c)

InCap(c) == RatGe(c, <<0, 1>>) /\ RatGe(CAP, c)

\* C12: the confidence of every ensemble prediction lies in [0, 1]; it lies
\* in [0, 0.95] when a strategy changed the ML scorer's pick (Mode A), when
\* the fusion reweighted towards one scorer, and when it fell back (Mode B).
C12_ConfidenceBounds ==
    ret.op = "Ensemble.predict_single" =>
        LET r == ret.results[1]
            d == ret.name.distilbert_result
            f == ret.name.feature_result
            dc == d.confidence
            fc == Permille(f.confidence)
            boosted == /\ ~d.error
                       /\ d.confidence # Permille(d.scores[d.label])
            reweighted == \/ RatGt(dc, Rat(8, 10)) /\ RatGt(Rat(6, 10), fc)
                          \/ RatGt(fc, Rat(8, 10)) /\ RatGt(Rat(6, 10), dc)
            fellback == r.confidence = RatMul(RatMax(dc, fc), Rat(7, 10))
        IN /\ InUnit(d.confidence)
           /\ InUnit(r.confidence)
           /\ boosted => InCap(d.confidence)
           /\ (ret.name.fused /\ DOMAIN r.scores # {} /\ (reweighted \/ fellback))
                 => InCap(r.confidence)

\* C12 witness: a strategy boost gave the ML scorer's result the confidence
\* 0.95 and the fusion, reweighting towards the ML scorer, answered with a
\* confidence of its own above the fallback threshold.
C12_Witness ==
    /\ ret.op = "Ensemble.predict_single"
    /\ ret.name.fused
    /\ ret.name.distilbert_result.label = "Invoices"
    /\ ret.name.distilbert_result.confidence = CAP
    /\ ret.name.distilbert_result.scores["Invoices"] < 950
    /\ ret.name.feature_result.confidence < 600
    /\ ret.results[1].confidence # CAP
    /\ RatGt(ret.results[1].confidence, Rat(3, 10))

\* the operations that return predictions
PredictionOps == {"predict_single", "predict_batch", "Ensemble.predict_single"}

\* C13 (as claimed): the label of every prediction of predict_single,
\* predict_batch and the ensemble is the name of a registered category.
C13_LabelRegistered ==
    ret.op \in PredictionOps =>
        \A i \in DOMAIN ret.results :
            ret.results[i].label \in NamesOf(categories)

\* C15 (as claimed): after a successful category add or remove the label map
\* agrees with the registry: every model index whose label names a registered
\* category maps to that category's id, every other index to the id of the
\* default category.
C15_LabelMapRebuilt ==
    (/\ ret.op \in {"Classifier.add_category", "Classifier.remove_category"}
     /\ ret.ok
     /\ id2label # <<>>)
        => \A i \in DOMAIN id2label :
              model_label_to_category_id.map[i] =
                  IF id2label[i] \in NamesOf(categories)
                  THEN get_category_id_by_name(categories, id2label[i])
                  ELSE get_category_id_by_name(categories, "Other")

\* C14 (as claimed): under any interleaving of predict_single calls the cache
\* never holds more than cache_size entries, and a stored entry is not
\* replaced before the cache is cleared.
C14_CacheBounded ==
    /\ [](Cardinality(DOMAIN prediction_cache) <= cache_size)
    /\ [][\A k \in DOMAIN prediction_cache :
            \/ prediction_cache' = <<>>
            \/ /\ k \in DOMAIN prediction_cache'
               /\ prediction_cache'[k] = prediction_cache[k]]_vars

\* C16 (as claimed): a predict_single call that runs next to
\* load_model_from_path reads a complete label map, the old one or the new
\* one, never the map a load is still filling.
C16_MapRebuildAtomic ==
    \A t \in Threads : Active(t) => ~calls[t].torn

\* C17 (as claimed): the result of a predict_single call that computed its
\* answer (no cache hit, no scorer failure) is the result the whole
\* computation gives on one registry that was current at some instant of the
\* call: names, ids, strategies and the keys of the scores all from that one
\* registry.
C17_OneSnapshot ==
    \A t \in Threads :
        (Active(t) /\ calls[t].pc = "return"
            /\ ~calls[t].hit /\ ~calls[t].result.error)
        => \E registry \in calls[t].seen :
              calls[t].result =
                  ComputeSingle(registry, model_label_to_category_id,
                                calls[t].email, calls[t].probabilities)

\* C18 (as claimed): the dict get_categories returned is a deep copy: read
\* at any later time, after any add, remove or update, it still holds the
\* categories, with all their fields, that the registry held when it was
\* returned.
C18_SnapshotDeepCopy ==
    snapshot.taken => snapshot.cats = snapshot.returned

\* C19 (as claimed): in the list predict_batch returns, the items of a chunk
\* on which the scorer raised are the failure result, and the items of every
\* other chunk are their normal predictions.
C19_ChunkFailureIsolated ==
    ret.op = "predict_batch"
    => \A i \in DOMAIN ret.results :
          ret.results[i] =
              IF ret.name.chunk_ok[ChunkOf(i)]
              THEN ComputeBatchItem(categories, ret.name.probs[i])
              ELSE FailureResult

\* C20: when ModelFusion.fuse_predictions has combined the two scorers and
\* the confidence after the weighting and the reweighting is below 0.3, the
\* label it returns is the label of the scorer with the higher raw
\* confidence, the ML scorer on ties, and the confidence is 0.7 times that
\* raw confidence.
C20_LowConfidenceFallback ==
    (ret.op = "Ensemble.predict_single" /\ ret.name.fused
        /\ DOMAIN ret.results[1].scores # {})
    => LET r == ret.results[1]
           dc == ret.name.distilbert_result.confidence
           fc == Permille(ret.name.feature_result.confidence)
           best == CHOOSE v \in {r.scores[l] : l \in DOMAIN r.scores} :
                      \A l \in DOMAIN r.scores : RatGe(v, r.scores[l])
           ml_first == RatGe(dc, fc)
           raw == IF ml_first THEN dc ELSE fc
       IN RatGt(Rat(3, 10), adjusted_confidence(dc, fc, best))
          => /\ r.label = IF ml_first THEN ret.name.distilbert_result.label
                                      ELSE ret.name.feature_result.label
             /\ r.confidence[1] * 10 * raw[2] = 7 * raw[1] * r.confidence[2]

\* C20 witness: the ML scorer gave 0.25 and the feature scorer 0.22, the
\* combined confidence stayed below 0.3 and the fusion answered with the ML
\* scorer's label and the confidence 0.175.
C20_Witness ==
    /\ ret.op = "Ensemble.predict_single"
    /\ ret.name.fused
    /\ ret.name.distilbert_result.confidence = Rat(250, 1000)
    /\ ret.name.feature_result.confidence = 220
    /\ \A l \in DOMAIN ret.results[1].scores :
          RatGt(Rat(3, 10), ret.results[1].scores[l])
    /\ ret.results[1].label = ret.name.distilbert_result.label
    /\ ret.results[1].confidence = Rat(175, 1000)

\* C21 (as claimed): after every add, remove or update that reports success
\* the persisted document holds the categories of the in-memory registry.
C21_SavedOnSuccess ==
    (ret.op \in {"add_category", "remove_category", "update_category"} /\ ret.ok)
    => categories_file = categories

\* C22 (as claimed): after update_category(name, key=value) reports success,
\* for a field of a category (description, classification_strategy), the
\* category holds the value under that key, updated_at is set, and the other
\* categories are as they were.
C22_UpdateApplies ==
    [][\A name \in NameSet :
       \A arg \in {a \in UpdateArgs :
                     a.key \in {"description", "classification_strategy"}} :
          (Manager_update_category(name, arg) /\ ret'.ok)
          => LET i == IndexOf(categories', name)
             IN /\ arg.key = "description"
                      => categories'[i].description = arg.value
                /\ arg.key = "classification_strategy"
                      => /\ "classification_strategy" \in KeysOf(categories'[i])
                         /\ categories'[i].classification_strategy = arg.value
                /\ "updated_at" \in KeysOf(categories'[i])
                /\ Len(categories') = Len(categories)
                /\ \A j \in DOMAIN categories :
                      j # i => categories'[j] = categories[j]]_vars

\* C23 (as claimed): a manager constructed over an empty or unreadable
\* categories file holds the five categories Academic, Promotions,
\* Placement, Spam and Other, get_category_by_id(0) is "Academic", and
\* get_category_by_id of an id no category has is None.
C23_FiveDefaults ==
    ret.op = "__init__"
    => /\ NamesOf(categories) = {"Academic", "Promotions", "Placement", "Spam", "Other"}
       /\ get_category_by_id(categories, 0) = "Academic"
       /\ \A id \in 0..(Len(categories) + 1) :
             id \notin IdsOf(categories) => get_category_by_id(categories, id) = None

\* C24 (as claimed): when no prediction is in flight, every entry of the
\* cache is a result that the registry and the model as they are now give
\* for its e-mail (for some output of the scorer): no entry computed before
\* a mutation outlives the mutation's cache clear.
C24_NoStaleEntry ==
    (\A t \in Threads : ~Active(t))
    => \A email \in DOMAIN prediction_cache :
          \E probabilities \in ScorerOutputs(num_labels) :
              prediction_cache[email] =
                  ComputeSingle(categories, model_label_to_category_id,
                                email, probabilities)

\* C25 (as claimed): predict_batch on a list of one e-mail, the scorer
\* returning, gives the label, confidence, scores and category_id that
\* predict_single computes for that e-mail and the same scorer output on the
\* same registry and label map (the e-mail not being cached).
C25_BatchAsSingle ==
    [][\A email \in Emails, probabilities \in ScorerOutputs(num_labels) :
          (email \notin DOMAIN prediction_cache
              /\ predict_batch(<<email>>, <<probabilities>>, TRUE))
          => LET batch == ret'.results[1]
                 single == SingleResult(email, probabilities, TRUE)
             IN /\ batch.label = single.label
                /\ batch.confidence = single.confidence
                /\ batch.scores = single.scores
                /\ batch.category_id = single.category_id]_vars

\* C26 (as claimed): in every result of predict_single and predict_batch
\* that is not a failure result, category_id is the id the registry gives to
\* the category named by label.
C26_IdOfLabel ==
    ret.op \in {"predict_single", "predict_batch"}
    => \A i \in DOMAIN ret.results :
          ~ret.results[i].error
          => ret.results[i].category_id =
                 get_category_id_by_name(categories, ret.results[i].label)

\* C27 (as claimed): whenever DynamicEmailClassifier.add_category or
\* remove_category returns False, the head update having failed or not, the
\* registry and its persisted document are as they were before the call.
C27_AllOrNothing ==
    [][\A name \in ServiceNames, head_ok \in BOOLEAN :
          ((\/ Classifier_add_category(name, "d0", EmptyBag, EmptyStrategy, head_ok)
            \/ Classifier_remove_category(name, head_ok))
              /\ ~ret'.ok)
          => /\ categories' = categories
             /\ categories_file' = categories_file]_vars

\* C28 (as claimed): on a registry that started from the defaults, a remove
\* of a registered name that is not one of the categories the
\* initialisation created (so a category a successful add created) succeeds
\* and takes the category out of the registry.
C28_AddedIsRemovable ==
    [][\A name \in NameSet :
          (Manager_remove_category(name)
              /\ name \in NamesOf(categories)
              /\ name \notin NamesOf(default_categories))
          => /\ ret'.ok
             /\ name \notin NamesOf(categories')]_vars

\* C29 (as claimed): for every category the StrategyScorer scores on an
\* e-mail, the summed score does not exceed the summed max_score, so that
\* strategy_confidence = score / max_score lies in [0, 1].
C29_StrategyConfidenceInUnit ==
    ret.op = "ModeA"
    => \A i \in DOMAIN categories :
          Scored(ret.name, categories[i])
          => StrategyTotals(ret.name, categories[i].classification_strategy)[1]
                <= StrategyTotals(ret.name, categories[i].classification_strategy)[2]

\* C30 (as claimed): a header group that cannot be evaluated contributes
\* score 0 and max_score 0: the category's totals are the totals of its
\* strategy without that group, and the prediction is not a failure result.
C30_FailedGroupSkipped ==
    ret.op = "ModeA"
    => /\ ~ret.results[1].error
       /\ \A i \in DOMAIN categories :
             LET st == categories[i].classification_strategy
             IN (st.headerAnalysis.present /\ st.headerAnalysis.bad_pattern)
                => StrategyTotals(ret.name, st) =
                       StrategyTotals(ret.name,
                                      [st EXCEPT !.headerAnalysis.present = FALSE])

====
